---- MODULE Spec2Model ----
(***************************************************************************)
(* State-machine model of the bakery REST API of src/server/app.py: the    *)
(* Flask URL map, the seven view functions and the three error handlers,   *)
(* over a relational store holding the tables bakeries and baked_goods.    *)
(*                                                                         *)
(* The declarations of the two tables (models.py) are not part of the      *)
(* sources at hand; the store is modelled from the specification: both     *)
(* tables carry a unique constraint on name, ids are the integer primary   *)
(* key the store generates, and a serialized bakery nests its baked goods. *)
(*                                                                         *)
(* Prices are Python floats; the model holds them in tenths (3.5 is 35).   *)
(* A URL path is the sequence of its segments, each a string.              *)
(* The clock is read by datetime.utcnow() alone; each reading is later     *)
(* than the one before.                                                    *)
(* request.form is a multi-dict: a set of <<key, value>> pairs.            *)
(***************************************************************************)
EXTENDS Integers, Sequences, FiniteSets, TLC

VARIABLES
    bakeries,     \* the rows of table bakeries, as committed
    baked_goods,  \* the rows of table baked_goods, as committed
    session,      \* db.session: the pending change of the unit of work
    now,          \* the wall clock, as last read by datetime.utcnow()
    req,          \* the request handled last: method, path, form
    resp,         \* the response to it: status, body
    pc,           \* interleaved handling: each worker's position
    preq,         \* interleaved handling: each worker's request
    psession,     \* interleaved handling: each worker's own db.session
    presp         \* interleaved handling: each worker's last response

vars == <<bakeries, baked_goods, session, now, req, resp, pc, preq, psession, presp>>

store == <<bakeries, baked_goods>>

-----------------------------------------------------------------------------
(* Bounds of the model. *)

\* utcnow() is read at most MaxTime times.
MaxTime == 1

\* The store generates baked-good ids up to MaxId.
MaxId == 2

-----------------------------------------------------------------------------
(* Literals of the inputs. *)

\* Decimal literals of non-negative integers: what the <int:id> converter
\* accepts in a path, and what int() parses in a form field.
IntLit == [s \in {"1", "2", "3", "4", "5", "7"} |->
            CASE s = "1" -> 1 [] s = "2" -> 2 [] s = "3" -> 3
              [] s = "4" -> 4 [] s = "5" -> 5 [] s = "7" -> 7]

\* Literals float() parses, with their value in tenths.
FloatLit == [s \in {"3.5", "2", "1.0", "-1"} |->
              CASE s = "3.5" -> 35 [] s = "2" -> 20 [] s = "1.0" -> 10 [] s = "-1" -> 0 - 10]

\* int(s): the value, or ValueError.
ParseInt(s) ==
    IF s \in DOMAIN IntLit THEN [ok |-> TRUE, val |-> IntLit[s]]
    ELSE [ok |-> FALSE, val |-> 0]

\* float(s): the value in tenths, or ValueError. Every int literal is a float
\* literal too.
ParseFloat(s) ==
    IF s \in DOMAIN FloatLit THEN [ok |-> TRUE, val |-> FloatLit[s]]
    ELSE IF s \in DOMAIN IntLit THEN [ok |-> TRUE, val |-> 10 * IntLit[s]]
    ELSE [ok |-> FALSE, val |-> 0]

\* request.form: `k in data` and data[k].
HasField(form, k) == \E kv \in form : kv[1] = k
Field(form, k) == (CHOOSE kv \in form : kv[1] = k)[2]

NoForm == {}

-----------------------------------------------------------------------------
(* The store and the session (flask_sqlalchemy's db, and the two models).  *)

\* The bakeries the store holds from the start; no endpoint creates one.
SeedBakeries ==
    { [id |-> 1, name |-> "Alpha", created_at |-> 0, updated_at |-> 0],
      [id |-> 2, name |-> "Beta", created_at |-> 0, updated_at |-> 0] }

\* A session with nothing pending.
Clean == [kind |-> "clean"]

\* The rows a query through session s sees: the committed rows, a bakery the
\* session has modified being the session's own object (the identity map).
VisibleBakeries(s) ==
    IF s.kind = "update"
    THEN { IF b.id = s.id THEN [b EXCEPT !.name = s.name, !.updated_at = s.updated_at]
           ELSE b : b \in bakeries }
    ELSE bakeries

\* Bakery.query.filter_by(id=id).first() and Bakery.query.get(id): the set
\* holding the row, or the empty set for None.
QueryBakery(s, id) == { b \in VisibleBakeries(s) : b.id = id }

\* BakedGood.query.filter_by(id=id).first().
QueryBakedGood(id) == { g \in baked_goods : g.id = id }

\* The integer primary key the store gives a new row: one more than the
\* largest in the table.
NextId(rows) ==
    IF rows = {} THEN 1
    ELSE (CHOOSE m \in {r.id : r \in rows} : \A r \in rows : r.id <= m) + 1

\* db.session.commit() with s pending: the flush applies the change in one
\* transaction; the unique constraint on name refuses a second row of a name.
\* The UPDATE of a bakery sets the columns whose value differs from the one
\* loaded.
Commit(s) ==
    CASE s.kind = "update" ->
           IF s.name # s.was /\ \E b \in bakeries : b.id # s.id /\ b.name = s.name
           THEN [err |-> "IntegrityError", bakeries |-> bakeries, baked_goods |-> baked_goods]
           ELSE [err |-> "none",
                 bakeries |-> { IF b.id = s.id
                                THEN [b EXCEPT !.name = IF s.name # s.was THEN s.name ELSE @,
                                               !.updated_at = s.updated_at]
                                ELSE b : b \in bakeries },
                 baked_goods |-> baked_goods]
      [] s.kind = "insert" ->
           IF \E g \in baked_goods : g.name = s.name
           THEN [err |-> "IntegrityError", bakeries |-> bakeries, baked_goods |-> baked_goods]
           ELSE [err |-> "none", bakeries |-> bakeries,
                 baked_goods |-> baked_goods \cup
                     { [id |-> NextId(baked_goods), name |-> s.name,
                        price |-> s.price, bakery_id |-> s.bakery_id] }]
      [] s.kind = "delete" ->
           [err |-> "none", bakeries |-> bakeries,
            baked_goods |-> { g \in baked_goods : g.id # s.id }]
      [] OTHER ->
           [err |-> "none", bakeries |-> bakeries, baked_goods |-> baked_goods]

\* db.session.rollback(): the pending change is dropped.
Rollback(s) == Clean

\* The rows of a set as a sequence in the order of their ids (creation order).
RECURSIVE ById(_)
ById(rows) ==
    IF rows = {} THEN << >>
    ELSE LET first == CHOOSE r \in rows : \A o \in rows : r.id <= o.id
         IN <<first>> \o ById(rows \ {first})

\* BakedGood.to_dict().
BakedGoodToDict(g) ==
    [id |-> g.id, name |-> g.name, price |-> g.price, bakery_id |-> g.bakery_id]

\* Bakery.to_dict(): its fields and the list of its baked goods.
BakeryToDict(b) ==
    [id |-> b.id, name |-> b.name, created_at |-> b.created_at,
     updated_at |-> b.updated_at,
     baked_goods |-> ById({ BakedGoodToDict(g) : g \in { r \in baked_goods : r.bakery_id = b.id } })]

\* The orders ORDER BY price DESC may return the rows in: non-increasing in
\* price, rows of one price in an order the store does not define.
ByPriceDesc(rows) ==
    { q \in [1..Cardinality(rows) -> rows] :
        /\ \A i, j \in 1..Cardinality(rows) : i # j => q[i] # q[j]
        /\ \A i, j \in 1..Cardinality(rows) : i < j => q[i].price >= q[j].price }

-----------------------------------------------------------------------------
(* The error handlers. *)

\* @app.errorhandler(404); the argument is not used.
not_found(error) == [status |-> 404, body |-> [error |-> "Resource not found"]]

\* @app.errorhandler(405)
method_not_allowed(error) == [status |-> 405, body |-> [error |-> "Method not allowed"]]

\* @app.errorhandler(400); the argument is not used.
bad_request(error) == [status |-> 400, body |-> [error |-> "Bad request"]]

-----------------------------------------------------------------------------
(* Routing. *)

\* UrlMap with GET among the methods of the rule of delete_baked_good.
UrlMap_GetOnDelete ==
    { [rule |-> << >>, methods |-> {"GET"}, endpoint |-> "home"],
      [rule |-> <<"bakeries">>, methods |-> {"GET"}, endpoint |-> "bakeries"],
      [rule |-> <<"bakeries", "<int:id>">>, methods |-> {"GET", "PATCH"},
       endpoint |-> "bakery_by_id"],
      [rule |-> <<"baked_goods", "by_price">>, methods |-> {"GET"},
       endpoint |-> "baked_goods_by_price"],
      [rule |-> <<"baked_goods", "most_expensive">>, methods |-> {"GET"},
       endpoint |-> "most_expensive_baked_good"],
      [rule |-> <<"baked_goods">>, methods |-> {"POST"}, endpoint |-> "create_baked_good"],
      [rule |-> <<"baked_goods", "<int:id>">>, methods |-> {"GET", "DELETE"},
       endpoint |-> "delete_baked_good"] }

\* The rules the @app.route decorators register.
UrlMap ==
    { [rule |-> << >>, methods |-> {"GET"}, endpoint |-> "home"],
      [rule |-> <<"bakeries">>, methods |-> {"GET"}, endpoint |-> "bakeries"],
      [rule |-> <<"bakeries", "<int:id>">>, methods |-> {"GET", "PATCH"},
       endpoint |-> "bakery_by_id"],
      [rule |-> <<"baked_goods", "by_price">>, methods |-> {"GET"},
       endpoint |-> "baked_goods_by_price"],
      [rule |-> <<"baked_goods", "most_expensive">>, methods |-> {"GET"},
       endpoint |-> "most_expensive_baked_good"],
      [rule |-> <<"baked_goods">>, methods |-> {"POST"}, endpoint |-> "create_baked_good"],
      [rule |-> <<"baked_goods", "<int:id>">>, methods |-> {"DELETE"},
       endpoint |-> "delete_baked_good"] }

\* A rule matches a path segment by segment; <int:id> matches a decimal literal.
Matches(rule, path) ==
    /\ Len(rule) = Len(path)
    /\ \A i \in 1..Len(rule) :
          IF rule[i] = "<int:id>" THEN path[i] \in DOMAIN IntLit ELSE rule[i] = path[i]

\* The endpoint a request is dispatched to: no rule for the path is a 404, a
\* rule for the path but none for the method a 405.
Dispatch(method, path) ==
    LET hits == { r \in UrlMap : Matches(r.rule, path) }
    IN IF hits = {} THEN "not_found"
       ELSE IF \A r \in hits : method \notin r.methods THEN "method_not_allowed"
       ELSE (CHOOSE r \in hits : method \in r.methods).endpoint

\* The id a path of a rule with <int:id> carries.
PathId(path) == IntLit[path[2]]

-----------------------------------------------------------------------------
(* The view functions. Each takes what Flask hands it (the id of the path,  *)
(* the method, the form) and yields the response together with the store,  *)
(* the session and the clock it leaves behind.                             *)

\* What a view leaves when it changes nothing.
Unchanged(r) ==
    [resp |-> r, bakeries |-> bakeries, baked_goods |-> baked_goods,
     session |-> session, now |-> now]

\* home()
home == Unchanged([status |-> 200, body |-> [html |-> "<h1>Bakery GET-POST-PATCH-DELETE API</h1>"]])

\* bakeries()
bakeries_view ==
    Unchanged([status |-> 200,
               body |-> [list |-> ById({ BakeryToDict(b) : b \in VisibleBakeries(session) })]])

\* PatchAttributes without the line that refreshes updated_at.
PatchAttributes_NoTimestamp(b, form, t) ==
    [kind |-> "update", id |-> b.id, was |-> b.name, name |-> Field(form, "name"),
     updated_at |-> b.updated_at]

\* bakery.name = data['name']; bakery.updated_at = datetime.utcnow(), t being
\* the clock's reading: the change the session then holds, with the name the
\* bakery was loaded with.
PatchAttributes(b, form, t) ==
    [kind |-> "update", id |-> b.id, was |-> b.name, name |-> Field(form, "name"),
     updated_at |-> t]

\* PatchIntegrityError without its db.session.rollback().
PatchIntegrityError_NoRollback(s, t) ==
    [resp |-> [status |-> 400, body |-> [error |-> "Name must be unique"]],
     bakeries |-> bakeries, baked_goods |-> baked_goods,
     session |-> s, now |-> t]

\* The except IntegrityError branch of the PATCH.
PatchIntegrityError(s, t) ==
    [resp |-> [status |-> 400, body |-> [error |-> "Name must be unique"]],
     bakeries |-> bakeries, baked_goods |-> baked_goods,
     session |-> Rollback(s), now |-> t]

\* The try block of the PATCH: add, commit, respond.
PatchCommit(s, t) ==
    LET c == Commit(s)
    IN IF c.err = "none"
       THEN [resp |-> [status |-> 200,
                       body |-> BakeryToDict(CHOOSE b \in c.bakeries : b.id = s.id)],
             bakeries |-> c.bakeries, baked_goods |-> c.baked_goods,
             session |-> Clean, now |-> t]
       ELSE IF c.err = "IntegrityError"
       THEN PatchIntegrityError(s, t)
       ELSE [resp |-> [status |-> 500, body |-> [error |-> "Failed to update bakery"]],
             bakeries |-> bakeries, baked_goods |-> baked_goods,
             session |-> Rollback(s), now |-> t]

\* bakery_by_id(id), for GET and PATCH.
bakery_by_id(id, method, form) ==
    LET found == QueryBakery(session, id)
    IN IF found = {} THEN Unchanged(not_found("Bakery not found"))
       ELSE LET bakery == CHOOSE b \in found : TRUE
            IN IF method = "GET"
               THEN Unchanged([status |-> 200, body |-> BakeryToDict(bakery)])
               ELSE IF form = NoForm \/ ~HasField(form, "name")
               THEN Unchanged(bad_request("Missing 'name' field in request body for update"))
               ELSE PatchCommit(PatchAttributes(bakery, form, now + 1), now + 1)

\* baked_goods_by_price(): one outcome for each order the store may return.
baked_goods_by_price ==
    { Unchanged([status |-> 200, body |-> [list |-> [i \in DOMAIN q |-> BakedGoodToDict(q[i])]]]) :
        q \in ByPriceDesc(baked_goods) }

\* MostExpensive ordering by price ascending.
MostExpensive_Ascending(rows) == { g \in rows : \A o \in rows : g.price <= o.price }

\* BakedGood.query.order_by(BakedGood.price.desc()).limit(1).first(): the rows
\* the store may return, none when the table is empty.
MostExpensive(rows) == { g \in rows : \A o \in rows : g.price >= o.price }

\* most_expensive_baked_good(): one outcome for each row the store may return.
most_expensive_baked_good ==
    IF MostExpensive(baked_goods) = {}
    THEN { Unchanged(not_found("No baked goods found")) }
    ELSE { Unchanged([status |-> 200, body |-> BakedGoodToDict(g)]) :
             g \in MostExpensive(baked_goods) }

\* BakeryMissing with the check left out.
BakeryMissing_Unchecked(s, id) == FALSE

\* bakery = Bakery.query.get(bakery_id); if not bakery
BakeryMissing(s, id) == QueryBakery(s, id) = {}

\* The except Exception branch of the POST.
CreateFailed(s) ==
    [resp |-> [status |-> 500, body |-> [error |-> "Failed to create baked good"]],
     bakeries |-> bakeries, baked_goods |-> baked_goods,
     session |-> Rollback(s), now |-> now]

\* CreateIntegrityError without the except IntegrityError clause: the
\* except Exception clause answers.
CreateIntegrityError_Uncaught(s) == CreateFailed(s)

\* The except IntegrityError branch of the POST.
CreateIntegrityError(s) ==
    [resp |-> [status |-> 400, body |-> [error |-> "Baked good name must be unique"]],
     bakeries |-> bakeries, baked_goods |-> baked_goods,
     session |-> Rollback(s), now |-> now]

\* The try block of the POST: construct, add, commit, respond.
CreateCommit(s) ==
    LET c == Commit(s)
    IN IF c.err = "none"
       THEN [resp |-> [status |-> 201,
                       body |-> BakedGoodToDict(CHOOSE g \in c.baked_goods : g.name = s.name)],
             bakeries |-> c.bakeries, baked_goods |-> c.baked_goods,
             session |-> Clean, now |-> now]
       ELSE IF c.err = "IntegrityError" THEN CreateIntegrityError(s)
       ELSE CreateFailed(s)

\* The validation of the form of a POST: the three fields are required,
\* price goes through float(), bakery_id through int().
PostValidation(form) ==
    IF form = NoForm \/ ~(\A k \in {"name", "price", "bakery_id"} : HasField(form, k))
    THEN [ok |-> FALSE, resp |-> bad_request("Missing required fields: name, price, bakery_id"),
          name |-> "", price |-> 0, bakery_id |-> 0]
    ELSE LET name == Field(form, "name")
             price == ParseFloat(Field(form, "price"))
             bakery_id == ParseInt(Field(form, "bakery_id"))
         IN IF ~price.ok
            THEN [ok |-> FALSE, resp |-> bad_request("Price must be a valid number"),
                  name |-> name, price |-> 0, bakery_id |-> 0]
            ELSE IF ~bakery_id.ok
            THEN [ok |-> FALSE, resp |-> bad_request("Bakery ID must be a valid integer"),
                  name |-> name, price |-> price.val, bakery_id |-> 0]
            ELSE [ok |-> TRUE, resp |-> bad_request(""),
                  name |-> name, price |-> price.val, bakery_id |-> bakery_id.val]

\* new_baked_good = BakedGood(name=name, price=price, bakery_id=bakery_id);
\* db.session.add(new_baked_good): the change the session then holds.
NewBakedGood(v) ==
    [kind |-> "insert", name |-> v.name, price |-> v.price, bakery_id |-> v.bakery_id]

\* create_baked_good()
create_baked_good(form) ==
    LET v == PostValidation(form)
    IN IF ~v.ok THEN Unchanged(v.resp)
       ELSE IF BakeryMissing(session, v.bakery_id)
       THEN Unchanged(not_found("Bakery not found"))
       ELSE CreateCommit(NewBakedGood(v))

\* BakedGoodMissing with the check left out.
BakedGoodMissing_Unchecked(id) == FALSE

\* baked_good = BakedGood.query.filter_by(id=id).first(); if not baked_good
BakedGoodMissing(id) == QueryBakedGood(id) = {}

\* delete_baked_good(id)
delete_baked_good(id) ==
    IF BakedGoodMissing(id) THEN Unchanged(not_found("Baked good not found"))
    ELSE LET s == [kind |-> "delete", id |-> id]
             c == Commit(s)
         IN IF c.err = "none"
            THEN [resp |-> [status |-> 200, body |-> [message |-> "successfully deleted", id |-> id]],
                  bakeries |-> c.bakeries, baked_goods |-> c.baked_goods,
                  session |-> Clean, now |-> now]
            ELSE [resp |-> [status |-> 500, body |-> [error |-> "Failed to delete baked good"]],
                  bakeries |-> bakeries, baked_goods |-> baked_goods,
                  session |-> Rollback(s), now |-> now]

-----------------------------------------------------------------------------
(* The requests the clients send. *)

Methods == {"GET", "POST", "PATCH", "DELETE"}

GoodNames == {"Croissant", "Bagel"}
PriceInputs == {"3.5", "2", "-1", "abc"}
BakeryIdInputs == {"1", "7", "1.0"}
BakeryNames == {"Alpha", "Beta", "Gamma"}

\* The ids a path may carry: those the store can hold, and one it never holds.
IdSegments == { s \in DOMAIN IntLit : IntLit[s] <= MaxId } \cup {"7"}

Paths ==
    { << >>, <<"bakeries">>, <<"baked_goods">>, <<"baked_goods", "by_price">>,
      <<"baked_goods", "most_expensive">>, <<"cakes">> }
    \cup { <<"bakeries", s>> : s \in {"1", "2", "7"} }
    \cup { <<"baked_goods", s>> : s \in IdSegments }

\* The requests sent: every request a view answers, a GET of every path, and
\* a DELETE of a bakery.
Requests ==
    { q \in Methods \X Paths :
        \/ Dispatch(q[1], q[2]) \notin {"not_found", "method_not_allowed"}
        \/ q[1] = "GET"
        \/ q = <<"DELETE", <<"bakeries", "1">>>> }

\* form(n, p, b): the form a client sends with all three fields.
PostForm(n, p, b) == { <<"name", n>>, <<"price", p>>, <<"bakery_id", b>> }

\* The forms of a POST: every name and price for bakery 1, every price and
\* bakery_id for one name, a form short of each one field, and no form at all.
PostForms ==
    { PostForm(n, p, "1") : n \in GoodNames, p \in PriceInputs }
    \cup { PostForm("Bagel", p, b) : p \in {"2", "abc"}, b \in BakeryIdInputs }
    \cup { { <<"name", "Bagel">>, <<"price", "2">> },
           { <<"name", "Bagel">>, <<"bakery_id", "1">> },
           { <<"price", "2">>, <<"bakery_id", "1">> },
           NoForm }

\* The forms of a PATCH: a name, or no form at all.
PatchForms == { { <<"name", n>> } : n \in BakeryNames } \cup { NoForm }

-----------------------------------------------------------------------------
(* Requests handled one at a time: each action is one request, from its    *)
(* dispatch to its response.                                               *)

\* The two workers of the interleaved handling.
Workers == {"w1", "w2"}

\* A worker at rest, before its first request.
NoRequest == [method |-> "GET", id |-> 0, name |-> "", raced |-> FALSE]

Init ==
    /\ bakeries = SeedBakeries
    /\ baked_goods = {}
    /\ session = Clean
    /\ now = 0
    /\ req = [method |-> "GET", path |-> << >>, form |-> NoForm]
    /\ resp = home.resp
    /\ pc = [w \in Workers |-> "idle"]
    /\ preq = [w \in Workers |-> NoRequest]
    /\ psession = [w \in Workers |-> Clean]
    /\ presp = [w \in Workers |-> [status |-> 0]]

\* The request q is answered with the outcome out of its view.
Answer(q, out) ==
    /\ out.now <= MaxTime
    /\ \A g \in out.baked_goods : g.id <= MaxId
    /\ req' = q
    /\ resp' = out.resp
    /\ bakeries' = out.bakeries
    /\ baked_goods' = out.baked_goods
    /\ session' = out.session
    /\ now' = out.now
    /\ UNCHANGED <<pc, preq, psession, presp>>

Request(m, p, f) == [method |-> m, path |-> p, form |-> f]

Home ==
    \E q \in Requests : LET m == q[1] p == q[2] IN
        /\ Dispatch(m, p) = "home"
        /\ Answer(Request(m, p, NoForm), home)

Bakeries ==
    \E q \in Requests : LET m == q[1] p == q[2] IN
        /\ Dispatch(m, p) = "bakeries"
        /\ Answer(Request(m, p, NoForm), bakeries_view)

BakeryById ==
    \E q \in Requests : LET m == q[1] p == q[2] IN
        /\ Dispatch(m, p) = "bakery_by_id"
        /\ \E f \in (IF m = "PATCH" THEN PatchForms ELSE {NoForm}) :
              Answer(Request(m, p, f), bakery_by_id(PathId(p), m, f))

BakedGoodsByPrice ==
    \E q \in Requests : LET m == q[1] p == q[2] IN
        /\ Dispatch(m, p) = "baked_goods_by_price"
        /\ \E out \in baked_goods_by_price : Answer(Request(m, p, NoForm), out)

MostExpensiveBakedGood ==
    \E q \in Requests : LET m == q[1] p == q[2] IN
        /\ Dispatch(m, p) = "most_expensive_baked_good"
        /\ \E out \in most_expensive_baked_good : Answer(Request(m, p, NoForm), out)

CreateBakedGood ==
    \E q \in Requests : LET m == q[1] p == q[2] IN
        /\ Dispatch(m, p) = "create_baked_good"
        /\ \E f \in PostForms : Answer(Request(m, p, f), create_baked_good(f))

DeleteBakedGood ==
    \E q \in Requests : LET m == q[1] p == q[2] IN
        /\ Dispatch(m, p) = "delete_baked_good"
        /\ Answer(Request(m, p, NoForm), delete_baked_good(PathId(p)))

\* No rule matches the path: Flask raises NotFound, which not_found answers.
NotFound ==
    \E q \in Requests : LET m == q[1] p == q[2] IN
        /\ Dispatch(m, p) = "not_found"
        /\ Answer(Request(m, p, NoForm), Unchanged(not_found("NotFound")))

\* A rule matches the path, none the method: method_not_allowed answers.
MethodNotAllowed ==
    \E q \in Requests : LET m == q[1] p == q[2] IN
        /\ Dispatch(m, p) = "method_not_allowed"
        /\ Answer(Request(m, p, NoForm), Unchanged(method_not_allowed("MethodNotAllowed")))

Next ==
    \/ Home
    \/ Bakeries
    \/ BakeryById
    \/ BakedGoodsByPrice
    \/ MostExpensiveBakedGood
    \/ CreateBakedGood
    \/ DeleteBakedGood
    \/ NotFound
    \/ MethodNotAllowed

Spec == Init /\ [][Next]_vars

-----------------------------------------------------------------------------
(* Requests handled concurrently: two workers, each with a session of its  *)
(* own, take the POST and the PATCH step by step: the validation, the      *)
(* query, the change and the commit of one interleave with the other's.    *)

\* The forms the concurrent POSTs carry.
ConcurrentPostForms ==
    { PostForm(n, "2", b) : n \in GoodNames, b \in {"1", "7"} }
    \cup { PostForm("Bagel", "abc", "1") }

\* The forms the concurrent PATCHes carry.
ConcurrentPatchForms == { { <<"name", n>> } : n \in {"Alpha", "Gamma"} } \cup { NoForm }

\* The worker other than w.
Other(w) == CHOOSE v \in Workers : v # w

\* Worker w answers r and ends its request; its session ends with it.
Respond(w, r) ==
    /\ presp' = [presp EXCEPT ![w] = r]
    /\ pc' = [pc EXCEPT ![w] = "idle"]
    /\ psession' = [psession EXCEPT ![w] = Clean]

\* Worker w takes a POST /baked_goods and validates its form.
ReceivePost(w) ==
    /\ pc[w] = "idle"
    /\ \E f \in ConcurrentPostForms :
          LET v == PostValidation(f)
          IN /\ preq' = [preq EXCEPT ![w] = [method |-> "POST", id |-> v.bakery_id,
                                            name |-> v.name, raced |-> FALSE]]
             /\ IF ~v.ok
                THEN Respond(w, v.resp)
                ELSE /\ pc' = [pc EXCEPT ![w] = "validated"]
                     /\ psession' = [psession EXCEPT ![w] = NewBakedGood(v)]
                     /\ UNCHANGED presp
    /\ UNCHANGED <<bakeries, baked_goods, session, now, req, resp>>

\* Worker w looks the bakery of its POST up. Once both workers are past this
\* query with one name that no baked good has, the two POSTs race.
CheckBakery(w) ==
    /\ pc[w] = "validated"
    /\ IF BakeryMissing(Clean, preq[w].id)
       THEN /\ Respond(w, not_found("Bakery not found"))
            /\ UNCHANGED preq
       ELSE /\ pc' = [pc EXCEPT ![w] = "checked"]
            /\ preq' = IF /\ pc[Other(w)] = "checked"
                          /\ preq[Other(w)].name = preq[w].name
                          /\ \A g \in baked_goods : g.name # preq[w].name
                       THEN [v \in Workers |-> [preq[v] EXCEPT !.raced = TRUE]]
                       ELSE preq
            /\ UNCHANGED <<presp, psession>>
    /\ UNCHANGED <<bakeries, baked_goods, session, now, req, resp>>

\* Worker w commits the baked good of its POST and answers.
CommitPost(w) ==
    /\ pc[w] = "checked"
    /\ LET out == CreateCommit(psession[w])
       IN /\ \A g \in out.baked_goods : g.id <= MaxId
          /\ bakeries' = out.bakeries
          /\ baked_goods' = out.baked_goods
          /\ presp' = [presp EXCEPT ![w] = out.resp]
          /\ psession' = [psession EXCEPT ![w] = out.session]
    /\ pc' = [pc EXCEPT ![w] = "idle"]
    /\ UNCHANGED <<session, now, req, resp, preq>>

\* Worker w takes a PATCH /bakeries/{id} and loads the bakery.
LookupBakery(w) ==
    /\ pc[w] = "idle"
    /\ \E id \in {1, 2, 7}, f \in ConcurrentPatchForms :
          LET found == QueryBakery(Clean, id)
          IN /\ preq' = [preq EXCEPT ![w] =
                           [method |-> "PATCH", id |-> id, raced |-> FALSE,
                            name |-> IF HasField(f, "name") THEN Field(f, "name") ELSE ""]]
             /\ IF found = {}
                THEN Respond(w, not_found("Bakery not found"))
                ELSE /\ pc' = [pc EXCEPT ![w] =
                                 IF HasField(f, "name") THEN "loaded" ELSE "loaded_no_name"]
                     /\ psession' = [psession EXCEPT ![w] =
                           LET b == CHOOSE b \in found : TRUE
                           IN [kind |-> "loaded", id |-> b.id, was |-> b.name,
                               name |-> b.name, updated_at |-> b.updated_at]]
                     /\ UNCHANGED presp
    /\ UNCHANGED <<bakeries, baked_goods, session, now, req, resp>>

\* Worker w checks the form of its PATCH and sets the attributes of the
\* bakery it loaded, reading the clock.
ModifyBakery(w) ==
    /\ pc[w] \in {"loaded", "loaded_no_name"}
    /\ IF pc[w] = "loaded_no_name"
       THEN /\ Respond(w, bad_request("Missing 'name' field in request body for update"))
            /\ UNCHANGED now
       ELSE /\ now < MaxTime
            /\ now' = now + 1
            /\ pc' = [pc EXCEPT ![w] = "modified"]
            /\ psession' = [psession EXCEPT ![w] =
                  PatchAttributes([id |-> psession[w].id, name |-> psession[w].was,
                                   updated_at |-> psession[w].updated_at],
                                  { <<"name", preq[w].name>> }, now + 1)]
            /\ UNCHANGED presp
    /\ UNCHANGED <<bakeries, baked_goods, session, req, resp, preq>>

\* Worker w commits its PATCH and answers.
CommitPatch(w) ==
    /\ pc[w] = "modified"
    /\ LET out == PatchCommit(psession[w], now)
       IN /\ bakeries' = out.bakeries
          /\ baked_goods' = out.baked_goods
          /\ presp' = [presp EXCEPT ![w] = out.resp]
          /\ psession' = [psession EXCEPT ![w] = out.session]
    /\ pc' = [pc EXCEPT ![w] = "idle"]
    /\ UNCHANGED <<session, now, req, resp, preq>>

NextConcurrent ==
    \E w \in Workers :
        \/ ReceivePost(w)
        \/ CheckBakery(w)
        \/ CommitPost(w)
        \/ LookupBakery(w)
        \/ ModifyBakery(w)
        \/ CommitPatch(w)

SpecConcurrent == Init /\ [][NextConcurrent]_vars

-----------------------------------------------------------------------------
(* What the claims speak of. *)

IsPost(q) == q.method = "POST" /\ q.path = <<"baked_goods">>
IsPatch(q) == q.method = "PATCH" /\ Len(q.path) = 2 /\ q.path[1] = "bakeries"
IsDelete(q) == q.method = "DELETE" /\ Len(q.path) = 2 /\ q.path[1] = "baked_goods"
IsGetBakedGood(q) ==
    /\ q.method = "GET" /\ Len(q.path) = 2 /\ q.path[1] = "baked_goods"
    /\ q.path[2] \in DOMAIN IntLit
IsByPrice(q) == q.method = "GET" /\ q.path = <<"baked_goods", "by_price">>
IsMostExpensive(q) == q.method = "GET" /\ q.path = <<"baked_goods", "most_expensive">>

\* The form carries name, price and bakery_id.
AllFields(form) == \A k \in {"name", "price", "bakery_id"} : HasField(form, k)

\* The form carries the three fields, a price that is a number and a
\* bakery_id that is an integer.
Parseable(form) ==
    /\ AllFields(form)
    /\ ParseFloat(Field(form, "price")).ok
    /\ ParseInt(Field(form, "bakery_id")).ok

FormBakeryId(form) == ParseInt(Field(form, "bakery_id")).val

BakeryIds == { b.id : b \in bakeries }
GoodIds == { g.id : g \in baked_goods }
GoodNamesStored == { g.name : g \in baked_goods }

\* C1: a POST /baked_goods whose fields are present and parse, and whose
\* bakery_id is the id of no bakery, is answered 404 and leaves both tables
\* as they were.
C1_UnknownBakery ==
    [][ (/\ IsPost(req')
         /\ Parseable(req'.form)
         /\ FormBakeryId(req'.form) \notin BakeryIds)
        => (/\ resp'.status = 404
            /\ baked_goods' = baked_goods
            /\ bakeries' = bakeries) ]_vars

\* C1's case: such a POST was answered, the store holding a baked good.
C1_Witness ==
    /\ IsPost(req)
    /\ Parseable(req.form)
    /\ FormBakeryId(req.form) \notin BakeryIds
    /\ resp.status = 404
    /\ baked_goods # {}

\* A POST that is valid but for its name: fields present and parsing, the
\* bakery existing.
ValidPost(q) ==
    /\ IsPost(q)
    /\ Parseable(q.form)
    /\ FormBakeryId(q.form) \in BakeryIds

\* C2: a valid POST of a name no baked good has is answered 201 and adds one
\* row; a valid POST of the name the POST just before it created is answered
\* 400 and adds none, so that the two together add exactly one row.
C2_SameNameTwice ==
    [][ ValidPost(req') =>
          /\ Field(req'.form, "name") \notin GoodNamesStored
               => /\ resp'.status = 201
                  /\ Cardinality(baked_goods') = Cardinality(baked_goods) + 1
          /\ (/\ ValidPost(req)
              /\ resp.status = 201
              /\ Field(req.form, "name") = Field(req'.form, "name"))
               => /\ resp'.status = 400
                  /\ Cardinality(baked_goods') = Cardinality(baked_goods)
                  /\ Cardinality(baked_goods') = Cardinality(baked_goods \ {resp.body}) + 1 ]_vars

\* C2's case: the second POST of a name was refused.
C2_Witness ==
    /\ ValidPost(req)
    /\ resp.status = 400
    /\ Field(req.form, "name") \in GoodNamesStored

\* The bakery of id i.
BakeryOf(rows, i) == CHOOSE b \in rows : b.id = i

\* A PATCH of an existing bakery with a name field.
NamedPatch(q) ==
    /\ IsPatch(q)
    /\ PathId(q.path) \in BakeryIds
    /\ HasField(q.form, "name")

\* C3: a PATCH of an existing bakery with a name no other bakery has is
\* answered 200; the bakery then has that name and a later updated_at, its id
\* and created_at as before; every other bakery and every baked good is as
\* before.
C3_PatchFrame ==
    [][ (/\ NamedPatch(req')
         /\ \A b \in bakeries :
               b.id # PathId(req'.path) => b.name # Field(req'.form, "name"))
        => LET i == PathId(req'.path)
               old == BakeryOf(bakeries, i)
           IN /\ resp'.status = 200
              /\ i \in { b.id : b \in bakeries' }
              /\ LET new == BakeryOf(bakeries', i)
                 IN /\ new.name = Field(req'.form, "name")
                    /\ new.updated_at > old.updated_at
                    /\ new.created_at = old.created_at
                    /\ resp'.body.name = Field(req'.form, "name")
                    /\ resp'.body.id = i
              /\ bakeries' \ {BakeryOf(bakeries', i)} = bakeries \ {old}
              /\ baked_goods' = baked_goods ]_vars

\* C3's case: a bakery was renamed, the store holding a baked good.
C3_Witness ==
    /\ NamedPatch(req)
    /\ resp.status = 200
    /\ BakeryOf(bakeries, PathId(req.path)).name = "Gamma"
    /\ baked_goods # {}

\* C4: a DELETE of an existing baked good is answered 200 and removes that
\* row and no other, the bakeries staying as they were; a DELETE of an id no
\* row has (as after its deletion, until a create reuses it) is answered 404
\* and changes nothing.
C4_DeleteFrame ==
    [][ IsDelete(req') =>
          LET i == PathId(req'.path)
          IN /\ i \in GoodIds
                  => /\ resp'.status = 200
                     /\ baked_goods' = { g \in baked_goods : g.id # i }
                     /\ Cardinality(baked_goods') = Cardinality(baked_goods) - 1
                     /\ bakeries' = bakeries
             /\ i \notin GoodIds
                  => /\ resp'.status = 404
                     /\ baked_goods' = baked_goods
                     /\ bakeries' = bakeries
             /\ (IsDelete(req) /\ req.path = req'.path /\ resp.status = 200)
                  => resp'.status = 404 ]_vars

\* C4's case: the DELETE of an id deleted before (a later id is still stored)
\* was answered 404.
C4_Witness ==
    /\ IsDelete(req)
    /\ resp.status = 404
    /\ \E g \in baked_goods : g.id > PathId(req.path)

\* C5, as claimed: after a DELETE answered 200, a GET of the same path is
\* answered 404.
C5_Original ==
    [][ (/\ IsDelete(req)
         /\ resp.status = 200
         /\ IsGetBakedGood(req')
         /\ req'.path = req.path)
        => resp'.status = 404 ]_vars

\* C5, amended: a GET of /baked_goods/{id} is answered 405 "Method not
\* allowed", after the DELETE of that id as before it, and changes nothing.
C5_GetIs405 ==
    [][ IsGetBakedGood(req')
        => /\ resp'.status = 405
           /\ resp'.body = [error |-> "Method not allowed"]
           /\ baked_goods' = baked_goods
           /\ bakeries' = bakeries ]_vars

\* C5's case: the GET of an id deleted before (a later id is still stored).
C5_Witness ==
    /\ IsGetBakedGood(req)
    /\ PathId(req.path) \notin GoodIds
    /\ \E g \in baked_goods : g.id > PathId(req.path)
    /\ resp.status = 405

\* The prices of a list of serialized baked goods do not increase.
NonIncreasing(list) ==
    \A i, j \in DOMAIN list : i < j => list[i].price >= list[j].price

\* What every GET /baked_goods/by_price returns: 200 and every baked good
\* once, by price descending.
ByPriceSorted ==
    IsByPrice(req')
    => /\ resp'.status = 200
       /\ NonIncreasing(resp'.body.list)
       /\ Len(resp'.body.list) = Cardinality(baked_goods)
       /\ { resp'.body.list[i] : i \in DOMAIN resp'.body.list }
            = { BakedGoodToDict(g) : g \in baked_goods }

\* C6, as claimed: the GET /baked_goods/most_expensive that follows a GET
\* /baked_goods/by_price returns the first element of its list, also when
\* several baked goods have the highest price; 404 when the list is empty.
C6_Original ==
    [][ /\ ByPriceSorted
        /\ (IsByPrice(req) /\ IsMostExpensive(req'))
           => IF resp.body.list = << >>
              THEN resp'.status = 404
              ELSE resp'.status = 200 /\ resp'.body = resp.body.list[1] ]_vars

\* C6, amended: it returns a baked good of the price of the first element of
\* that list, which is that element when no other baked good has its price.
C6_SamePrice ==
    [][ /\ ByPriceSorted
        /\ (IsByPrice(req) /\ IsMostExpensive(req'))
           => IF resp.body.list = << >>
              THEN resp'.status = 404 /\ baked_goods = {}
              ELSE /\ resp'.status = 200
                   /\ resp'.body \in { BakedGoodToDict(g) : g \in baked_goods }
                   /\ resp'.body.price = resp.body.list[1].price
                   /\ (\A i \in DOMAIN resp.body.list :
                          i # 1 => resp.body.list[i].price # resp.body.list[1].price)
                      => resp'.body = resp.body.list[1] ]_vars

\* C6's case: most_expensive answered while two baked goods have the highest
\* price.
C6_Witness ==
    /\ IsMostExpensive(req)
    /\ resp.status = 200
    /\ \E g \in baked_goods : g.id # resp.body.id /\ g.price = resp.body.price

\* C7, as claimed: a POST with the three fields and a price that is no number
\* is answered 400 with the body {"error": "Price must be a valid number"},
\* and adds no row.
C7_Claim ==
    [][ (/\ IsPost(req')
         /\ AllFields(req'.form)
         /\ ~ParseFloat(Field(req'.form, "price")).ok)
        => /\ resp'.status = 400
           /\ resp'.body = [error |-> "Price must be a valid number"]
           /\ baked_goods' = baked_goods ]_vars

\* C8, as claimed: no stored baked good has a price below zero.
C8_Claim == \A g \in baked_goods : g.price >= 0

\* C9: a PATCH of an existing bakery with the name of another bakery is
\* answered 400 and leaves the store as it was, the bakery keeping its name
\* and its updated_at; the GET of that bakery that follows returns the name
\* it had.
C9_DuplicateName ==
    [][ /\ (/\ NamedPatch(req')
            /\ \E b \in bakeries :
                  b.id # PathId(req'.path) /\ b.name = Field(req'.form, "name"))
           => /\ resp'.status = 400
              /\ bakeries' = bakeries
              /\ baked_goods' = baked_goods
        /\ (/\ NamedPatch(req)
            /\ resp.status = 400
            /\ req'.method = "GET"
            /\ req'.path = req.path)
           => /\ resp'.status = 200
              /\ resp'.body.name = BakeryOf(bakeries, PathId(req.path)).name
              /\ resp'.body.updated_at = BakeryOf(bakeries, PathId(req.path)).updated_at
              /\ resp'.body.name # Field(req.form, "name") ]_vars

\* C9's case: the GET that follows the refused PATCH was answered.
C9_Witness ==
    /\ req.method = "GET"
    /\ req.path = <<"bakeries", "1">>
    /\ resp.status = 200
    /\ now = 1
    /\ bakeries = SeedBakeries

====
